---------------------------- MODULE Spec2Model ----------------------------
(***************************************************************************)
(* The packet identifier pool of src/mqtt_packet_id_dispatcher.go:         *)
(* PacketIDs.Reserve and PacketIDs.Release called concurrently by a fixed  *)
(* set of goroutines.  The pool's mutex is a variable; one action is one   *)
(* critical section, or one of the steps of sync.Cond.Wait.                *)
(***************************************************************************)
EXTENDS Integers, Sequences, FiniteSets, TLC

\* ------------------------------------------------------------ bounds
\* Number of goroutines calling Reserve and Release.
NumProcs == 3
\* math.MaxUint16 at the width of the model: the largest value of an id.
MaxId == 2
\* Number of waiterNode cells the heap of the model holds (HeapNeverFull).
MaxNodes == 2 * NumProcs

Procs == 1 .. NumProcs
NodeIds == 1 .. MaxNodes
Values == 0 .. MaxId
\* the nil pointer
Nil == 0
\* mu = NoProc: the mutex is free
NoProc == 0

\* var MaxSimultaneousRequest uint16 = math.MaxUint16
MaxSimultaneousRequest == MaxId

\* uint16 arithmetic wraps modulo MaxUint16 + 1
Wrap(n) == n % (MaxId + 1)

VARIABLES
    mu,            \* p.mu: NoProc, or the goroutine that holds the mutex
    maxIDReached,  \* p.maxIDReached
    stack,         \* p.stack: the linked packetIDNode list, top first
    stackSize,     \* p.stackSize
    waitList,      \* p.waitList: the head waiterNode, or Nil
    waitListSize,  \* p.waitListSize
    node,          \* the heap of waiterNode cells
    pc,            \* where each goroutine stands
    w,             \* Reserve's local w
    arg,           \* Release's local id
    held,          \* held[v]: how many reservations of v the callers hold
    freeOrder,     \* history: the values on the free stack, oldest release first
    parkOrder,     \* history: the goroutines inside Reserve's wait, oldest first
    released,      \* history: some Release has run its critical section
    mintLog,       \* history: what Reserve returned, as long as ~released
    lastOp         \* history: the branch the last critical section took

vars == <<mu, maxIDReached, stack, stackSize, waitList, waitListSize, node,
          pc, w, arg, held, freeOrder, parkOrder, released, mintLog, lastOp>>

\* ---------------------------------------------------- the other programs
\* The repository holds two more programs with state of their own, the list
\* manager of sorted_list_api_manager.kt and the broadcaster of
\* pub_sub_implementation.go.  They share nothing with the pool: no step of one
\* program changes a variable of another.
NumChans == 2
MaxStamp == 2

Kinds == {"all", "after", "before"}
Stamps == 1 .. MaxStamp
Chans == 1 .. NumChans
ListenerIds == 1 .. MaxId
NoNode == [ch |-> 0, closed |-> FALSE, ok |-> FALSE]

VARIABLES
    channel,       \* loadAllChannel, loadAfterChannel, loadBeforeChannel: buffers
    loader,        \* where the coroutine that reads each channel stands
    cause,         \* history: the call a loader works on was made during a load
    loading,       \* data.loading, the value posted last
    rows,          \* data.rows, as timestamps (a row's key is its timestamp)
    rmu,           \* the broadcaster's mutex: NoProc, or the goroutine holding it
    listeners,     \* r.listeners: the ListenerNode of an id, or NoNode
    closedCh,      \* the channels that have been closed
    bpc,           \* where each goroutine stands in the broadcaster
    bid,           \* the id a call was made with
    bch,           \* the ch a call was made with
    bnode          \* the locals node, ok

listVars == <<channel, loader, cause, loading, rows>>
rbVars == <<rmu, listeners, closedCh, bpc, bid, bch, bnode>>
allVars == <<vars, listVars, rbVars>>

\* ---------------------------------------------------- the codec
\* bytes.Split16BitWord: most significant byte first
Split16BitWord(v) == <<v \div 256, v % 256>>
\* bytes.CombineTwoBytes
CombineTwoBytes(b) == b[1] * 256 + b[2]
\* PacketID.GetBytes
GetBytes(v) == Split16BitWord(v)

\* ---------------------------------------------------- the heap
\* &waiterNode{}: Go's zero value
EmptyNode == [value |-> 0, done |-> FALSE, next |-> Nil, previous |-> Nil]

RECURSIVE Visit(_, _, _)
\* the cells reachable from the pointers todo through next and previous, in the
\* order a depth-first walk meets them
VisitFrom(nd, todo, seen) ==
    IF todo = <<>> THEN seen
    ELSE LET n == Head(todo)
         IN  IF n = Nil \/ \E i \in 1 .. Len(seen) : seen[i] = n
             THEN Visit(nd, Tail(todo), seen)
             ELSE Visit(nd, <<nd[n].next, nd[n].previous>> \o Tail(todo),
                        Append(seen, n))

\* VisitFrom, its arguments evaluated once
Visit(nd, todo, seen) ==
    CHOOSE r \in {VisitFrom(x[1], x[2], x[3]) : x \in {<<nd, todo, seen>>}} : TRUE

\* the cells the program can still reach: from every goroutine's w and from
\* p.waitList
Live(nd, wl, ws) == Visit(nd, [t \in Procs |-> ws[t]] \o <<wl>>, <<>>)

\* A heap is a graph: the addresses of its cells carry no meaning.  CanonOf gives
\* the cells the program can reach the addresses 1, 2, ... in the order Live
\* meets them; a cell nothing points to is garbage and is collected.
CanonOf(nd, wl, ws) ==
    LET live == Live(nd, wl, ws)
        addr(n) == IF n = Nil THEN Nil
                   ELSE CHOOSE i \in 1 .. Len(live) : live[i] = n
    IN  [node |-> [i \in NodeIds |->
                     IF i <= Len(live)
                     THEN [value |-> nd[live[i]].value,
                           done |-> nd[live[i]].done,
                           next |-> addr(nd[live[i]].next),
                           previous |-> addr(nd[live[i]].previous)]
                     ELSE EmptyNode],
         waitList |-> addr(wl),
         w |-> [t \in Procs |-> addr(ws[t])]]

\* CanonOf, its arguments evaluated once
Canon(nd, wl, ws) ==
    CHOOSE r \in {CanonOf(x[1], x[2], x[3]) : x \in {<<nd, wl, ws>>}} : TRUE

\* the address of a new waiterNode: the first cell that is free
NewNode == Len(Live(node, waitList, w)) + 1

HeapHasRoom == NewNode \in NodeIds

\* ---------------------------------------------------- sequences
RECURSIVE RemoveFirst(_, _)
\* s without its first occurrence of x
RemoveFirst(s, x) ==
    IF s = <<>> THEN <<>>
    ELSE IF Head(s) = x THEN Tail(s)
    ELSE <<Head(s)>> \o RemoveFirst(Tail(s), x)

\* a free list that puts the id under the others
PushBottom(id, s) == Append(s, id)

\* &packetIDNode{i: id, next: p.stack}
Push(id, s) == <<id>> \o s

\* a pop that leaves the node on the stack
PopStuck(s) == s

\* p.stack = p.stack.next
Pop(s) == Tail(s)

\* the caller of Reserve receives v
Give(v) == [held EXCEPT ![v] = @ + 1]
\* the caller of Release has given v back
Take(v) == [held EXCEPT ![v] = IF @ > 0 THEN @ - 1 ELSE 0]

\* ---------------------------------------------------- New
Init ==
    /\ mu = NoProc
    /\ maxIDReached = 0
    /\ stack = <<>>
    /\ stackSize = 0
    /\ waitList = Nil
    /\ waitListSize = 0
    /\ node = [n \in NodeIds |-> EmptyNode]
    /\ pc = [t \in Procs |-> "idle"]
    /\ w = [t \in Procs |-> Nil]
    /\ arg = [t \in Procs |-> 0]
    /\ held = [v \in Values |-> 0]
    /\ freeOrder = <<>>
    /\ parkOrder = <<>>
    /\ released = FALSE
    /\ mintLog = <<>>
    /\ lastOp = "new"
    \* InfiniteListDataManager( ... ) and start(): the channels are empty, the
    \* coroutines wait in their for loops
    /\ channel = [k \in Kinds |-> <<>>]
    /\ loader = [k \in Kinds |-> "idle"]
    /\ cause = [k \in Kinds |-> FALSE]
    /\ loading = "NONE"
    /\ rows = <<>>
    \* &ResponseBroadcaster{listeners: make(map[uint16]*ListenerNode)}
    /\ rmu = NoProc
    /\ listeners = [i \in ListenerIds |-> NoNode]
    /\ closedCh = {}
    /\ bpc = [t \in Procs |-> "idle"]
    /\ bid = [t \in Procs |-> 0]
    /\ bch = [t \in Procs |-> 0]
    /\ bnode = [t \in Procs |-> NoNode]

\* ---------------------------------------------------- Reserve
\* p.mu.Lock() of Reserve
ReserveLock(t) ==
    /\ pc[t] = "idle"
    /\ mu = NoProc
    /\ mu' = t
    /\ pc' = [pc EXCEPT ![t] = "reserve"]
    /\ UNCHANGED <<maxIDReached, stack, stackSize, waitList, waitListSize, node,
                   w, arg, held, freeOrder, parkOrder, released, mintLog, lastOp>>
    /\ UNCHANGED <<listVars, rbVars>>

\* return &PacketID{Value: id}, and the deferred p.mu.Unlock()
Return(t, id, op) ==
    /\ held' = Give(id)
    /\ pc' = [pc EXCEPT ![t] = "idle"]
    /\ mu' = NoProc
    /\ mintLog' = IF released THEN mintLog ELSE Append(mintLog, id)
    /\ lastOp' = op

\* a pop without p.stackSize--
ReservePopNoCount(t) ==
    /\ pc[t] = "reserve"
    /\ stack # <<>>
    /\ LET id == Head(stack)
       IN  /\ stack' = Pop(stack)
           /\ stackSize' = stackSize
           /\ freeOrder' = RemoveFirst(freeOrder, id)
           /\ Return(t, id, "pop")
    /\ UNCHANGED <<maxIDReached, waitList, waitListSize, node, w, arg, parkOrder,
                   released>>
    /\ UNCHANGED <<listVars, rbVars>>

\* if p.stack != nil: pop the top of the stack
ReservePop(t) ==
    /\ pc[t] = "reserve"
    /\ stack # <<>>
    /\ LET id == Head(stack)
       IN  /\ stack' = Pop(stack)
           /\ stackSize' = stackSize - 1
           /\ freeOrder' = RemoveFirst(freeOrder, id)
           /\ Return(t, id, "pop")
    /\ UNCHANGED <<maxIDReached, waitList, waitListSize, node, w, arg, parkOrder,
                   released>>
    /\ UNCHANGED <<listVars, rbVars>>

\* a mint without the test against MaxSimultaneousRequest
ReserveMintUnguarded(t) ==
    /\ pc[t] = "reserve"
    /\ stack = <<>>
    /\ maxIDReached' = Wrap(maxIDReached + 1)
    /\ Return(t, maxIDReached', "mint")
    /\ UNCHANGED <<stack, stackSize, waitList, waitListSize, node, w, arg,
                   freeOrder, parkOrder, released>>
    /\ UNCHANGED <<listVars, rbVars>>

\* a mint that returns the value the counter had before the increment
ReserveMintStale(t) ==
    /\ pc[t] = "reserve"
    /\ stack = <<>>
    /\ maxIDReached < MaxSimultaneousRequest
    /\ maxIDReached' = Wrap(maxIDReached + 1)
    /\ Return(t, maxIDReached, "mint")
    /\ UNCHANGED <<stack, stackSize, waitList, waitListSize, node, w, arg,
                   freeOrder, parkOrder, released>>
    /\ UNCHANGED <<listVars, rbVars>>

\* if p.maxIDReached < MaxSimultaneousRequest: a new id
ReserveMint(t) ==
    /\ pc[t] = "reserve"
    /\ stack = <<>>
    /\ maxIDReached < MaxSimultaneousRequest
    /\ maxIDReached' = Wrap(maxIDReached + 1)
    /\ Return(t, maxIDReached', "mint")
    /\ UNCHANGED <<stack, stackSize, waitList, waitListSize, node, w, arg,
                   freeOrder, parkOrder, released>>
    /\ UNCHANGED <<listVars, rbVars>>

RECURSIVE Chain(_, _, _)
\* the cells met from the cell n by following next, at most k of them
Chain(nd, n, k) ==
    IF n = Nil \/ k = 0 THEN <<>>
    ELSE <<n>> \o Chain(nd, nd[n].next, k - 1)

\* a queue that puts the new waiter behind the last one
LinkTail(nd, n, wl) ==
    IF wl = Nil
    THEN [node |-> [nd EXCEPT ![n] = EmptyNode], waitList |-> n]
    ELSE LET c == Chain(nd, wl, MaxNodes)
             last == c[Len(c)]
         IN  [node |-> [nd EXCEPT ![n] = [EmptyNode EXCEPT !.previous = last],
                                  ![last].next = n],
              waitList |-> wl]

\* Create a waiter and add it to the wait queue: w = &waiterNode{} when the list
\* is empty, else w = &waiterNode{next: p.waitList}, p.waitList.previous = w;
\* and p.waitList = w
LinkHead(nd, n, wl) ==
    IF wl = Nil
    THEN [node |-> [nd EXCEPT ![n] = EmptyNode], waitList |-> n]
    ELSE [node |-> [nd EXCEPT ![n] = [EmptyNode EXCEPT !.next = wl],
                              ![wl].previous = n],
          waitList |-> n]

\* a Reserve that already waits when one id is still to be minted
ReserveParkEarly(t) ==
    /\ pc[t] = "reserve"
    /\ stack = <<>>
    /\ ~(maxIDReached < MaxSimultaneousRequest - 1)
    /\ HeapHasRoom
    /\ \E linked \in {LinkHead(node, NewNode, waitList)} :
       \E heap \in {Canon(linked.node, linked.waitList,
                          [w EXCEPT ![t] = NewNode])} :
           /\ w' = heap.w
           /\ waitList' = heap.waitList
           /\ node' = heap.node
    /\ waitListSize' = waitListSize + 1
    /\ parkOrder' = Append(parkOrder, t)
    /\ pc' = [pc EXCEPT ![t] = "waiting"]
    /\ mu' = NoProc
    /\ lastOp' = "park"
    /\ UNCHANGED <<maxIDReached, stack, stackSize, arg, held, freeOrder, released,
                   mintLog>>
    /\ UNCHANGED <<listVars, rbVars>>

\* a wait that spins on w.done with the mutex held
ReserveParkLocked(t) ==
    /\ pc[t] = "reserve"
    /\ stack = <<>>
    /\ ~(maxIDReached < MaxSimultaneousRequest)
    /\ HeapHasRoom
    /\ \E linked \in {LinkHead(node, NewNode, waitList)} :
       \E heap \in {Canon(linked.node, linked.waitList,
                          [w EXCEPT ![t] = NewNode])} :
           /\ w' = heap.w
           /\ waitList' = heap.waitList
           /\ node' = heap.node
    /\ waitListSize' = waitListSize + 1
    /\ parkOrder' = Append(parkOrder, t)
    /\ pc' = [pc EXCEPT ![t] = "waiting"]
    /\ mu' = mu
    /\ lastOp' = "park"
    /\ UNCHANGED <<maxIDReached, stack, stackSize, arg, held, freeOrder, released,
                   mintLog>>
    /\ UNCHANGED <<listVars, rbVars>>

\* neither a free id nor a new one: create a waiter, put it at the head of the
\* wait list, and p.cond.Wait() (w.done is false): the mutex is given up
ReservePark(t) ==
    /\ pc[t] = "reserve"
    /\ stack = <<>>
    /\ ~(maxIDReached < MaxSimultaneousRequest)
    /\ HeapHasRoom
    /\ \E linked \in {LinkHead(node, NewNode, waitList)} :
       \E heap \in {Canon(linked.node, linked.waitList,
                          [w EXCEPT ![t] = NewNode])} :
           /\ w' = heap.w
           /\ waitList' = heap.waitList
           /\ node' = heap.node
    /\ waitListSize' = waitListSize + 1
    /\ parkOrder' = Append(parkOrder, t)
    /\ pc' = [pc EXCEPT ![t] = "waiting"]
    /\ mu' = NoProc
    /\ lastOp' = "park"
    /\ UNCHANGED <<maxIDReached, stack, stackSize, arg, held, freeOrder, released,
                   mintLog>>
    /\ UNCHANGED <<listVars, rbVars>>

\* p.cond.Wait() of a goroutine that Broadcast woke: it takes the mutex again
WaitReacquire(t) ==
    /\ pc[t] = "woken"
    /\ mu = NoProc
    /\ mu' = t
    /\ pc' = [pc EXCEPT ![t] = "resumed"]
    /\ UNCHANGED <<maxIDReached, stack, stackSize, waitList, waitListSize, node,
                   w, arg, held, freeOrder, parkOrder, released, mintLog, lastOp>>
    /\ UNCHANGED <<listVars, rbVars>>

\* an unlink that writes the next field of the next waiter, not its previous
UnlinkWrongField(nd, n) ==
    LET nd1 == IF nd[n].previous # Nil
               THEN [nd EXCEPT ![nd[n].previous].next = nd[n].next] ELSE nd
    IN  IF nd1[n].next # Nil
        THEN [nd1 EXCEPT ![nd1[n].next].next = n] ELSE nd1

\* Remove the waiter from the waiter queue: join previous and next
Unlink(nd, n) ==
    LET nd1 == IF nd[n].previous # Nil
               THEN [nd EXCEPT ![nd[n].previous].next = nd[n].next] ELSE nd
    IN  IF nd1[n].next # Nil
        THEN [nd1 EXCEPT ![nd1[n].next].previous = nd1[n].previous] ELSE nd1

\* an "if !w.done" in place of the loop: whoever is woken returns
ReserveWakeReturn(t) ==
    /\ pc[t] = "resumed"
    /\ ~node[w[t]].done
    /\ LET heap == Canon(Unlink(node, w[t]), waitList, [w EXCEPT ![t] = Nil])
       IN  /\ w' = heap.w
           /\ waitList' = heap.waitList
           /\ node' = heap.node
    /\ waitListSize' = waitListSize - 1
    /\ Return(t, node[w[t]].value, "resume")
    /\ parkOrder' = SelectSeq(parkOrder, LAMBDA q : q # t)
    /\ UNCHANGED <<maxIDReached, stack, stackSize, arg, freeOrder, released>>
    /\ UNCHANGED <<listVars, rbVars>>

\* for !w.done { p.cond.Wait() }: not this waiter's turn, it waits again
ReserveRewait(t) ==
    /\ pc[t] = "resumed"
    /\ ~node[w[t]].done
    /\ pc' = [pc EXCEPT ![t] = "waiting"]
    /\ mu' = NoProc
    /\ lastOp' = "rewait"
    /\ UNCHANGED <<maxIDReached, stack, stackSize, waitList, waitListSize, node,
                   w, arg, held, freeOrder, parkOrder, released, mintLog>>
    /\ UNCHANGED <<listVars, rbVars>>

\* w.done is true: unlink the waiter, p.waitListSize--, return w.value
ReserveResume(t) ==
    /\ pc[t] = "resumed"
    /\ node[w[t]].done
    /\ LET heap == Canon(Unlink(node, w[t]), waitList, [w EXCEPT ![t] = Nil])
       IN  /\ w' = heap.w
           /\ waitList' = heap.waitList
           /\ node' = heap.node
    /\ waitListSize' = waitListSize - 1
    /\ Return(t, node[w[t]].value, "resume")
    /\ parkOrder' = SelectSeq(parkOrder, LAMBDA q : q # t)
    /\ UNCHANGED <<maxIDReached, stack, stackSize, arg, freeOrder, released>>
    /\ UNCHANGED <<listVars, rbVars>>

Reserve(t) ==
    \/ ReserveLock(t)
    \/ ReservePop(t)
    \/ ReserveMint(t)
    \/ ReservePark(t)
    \/ WaitReacquire(t)
    \/ ReserveRewait(t)
    \/ ReserveResume(t)

\* ---------------------------------------------------- Release
\* a caller releases an id that is held: CombineTwoBytes, then p.mu.Lock()
ReleaseLock(t, v) ==
    /\ pc[t] = "idle"
    /\ held[v] > 0
    /\ mu = NoProc
    /\ mu' = t
    /\ arg' = [arg EXCEPT ![t] = CombineTwoBytes(GetBytes(v))]
    /\ pc' = [pc EXCEPT ![t] = "release"]
    /\ UNCHANGED <<maxIDReached, stack, stackSize, waitList, waitListSize, node,
                   w, held, freeOrder, parkOrder, released, mintLog, lastOp>>
    /\ UNCHANGED <<listVars, rbVars>>

\* p.cond.Broadcast(): every goroutine in Wait is woken
Broadcast(p) == [t \in Procs |-> IF p[t] = "waiting" THEN "woken" ELSE p[t]]

\* the end of Release: the id is the caller's no more, the deferred Unlock
Released(t, op) ==
    /\ held' = Take(arg[t])
    /\ arg' = [arg EXCEPT ![t] = 0]
    /\ mu' = NoProc
    /\ released' = TRUE
    /\ mintLog' = <<>>
    /\ lastOp' = op

\* a Release without the else: the id goes to the head waiter and on the stack
ReleaseHandoffAndPush(t) ==
    /\ pc[t] = "release"
    /\ waitList # Nil
    /\ LET heap == Canon([node EXCEPT ![waitList].value = arg[t],
                                       ![waitList].done = TRUE],
                         node[waitList].next, w)
       IN  /\ w' = heap.w
           /\ waitList' = heap.waitList
           /\ node' = heap.node
    /\ stack' = Push(arg[t], stack)
    /\ stackSize' = stackSize + 1
    /\ freeOrder' = Append(freeOrder, arg[t])
    /\ pc' = Broadcast([pc EXCEPT ![t] = "idle"])
    /\ Released(t, "handoff")
    /\ UNCHANGED <<maxIDReached, waitListSize, parkOrder>>
    /\ UNCHANGED <<listVars, rbVars>>

\* a Release that marks the head waiter done and forgets w.value = id
ReleaseHandoffNoValue(t) ==
    /\ pc[t] = "release"
    /\ waitList # Nil
    /\ LET heap == Canon([node EXCEPT ![waitList].done = TRUE],
                         node[waitList].next, w)
       IN  /\ w' = heap.w
           /\ waitList' = heap.waitList
           /\ node' = heap.node
    /\ pc' = Broadcast([pc EXCEPT ![t] = "idle"])
    /\ Released(t, "handoff")
    /\ UNCHANGED <<maxIDReached, stack, stackSize, waitListSize, freeOrder,
                   parkOrder>>
    /\ UNCHANGED <<listVars, rbVars>>

\* a Release that serves the head waiter and forgets p.cond.Broadcast()
ReleaseHandoffNoBroadcast(t) ==
    /\ pc[t] = "release"
    /\ waitList # Nil
    /\ LET heap == Canon([node EXCEPT ![waitList].value = arg[t],
                                      ![waitList].done = TRUE],
                         node[waitList].next, w)
       IN  /\ w' = heap.w
           /\ waitList' = heap.waitList
           /\ node' = heap.node
    /\ pc' = [pc EXCEPT ![t] = "idle"]
    /\ Released(t, "handoff")
    /\ UNCHANGED <<maxIDReached, stack, stackSize, waitListSize, freeOrder,
                   parkOrder>>
    /\ UNCHANGED <<listVars, rbVars>>

\* if p.waitList != nil: the head waiter gets the id, and Broadcast
ReleaseHandoff(t) ==
    /\ pc[t] = "release"
    /\ waitList # Nil
    /\ LET heap == Canon([node EXCEPT ![waitList].value = arg[t],
                                       ![waitList].done = TRUE],
                         node[waitList].next, w)
       IN  /\ w' = heap.w
           /\ waitList' = heap.waitList
           /\ node' = heap.node
    /\ pc' = Broadcast([pc EXCEPT ![t] = "idle"])
    /\ Released(t, "handoff")
    /\ UNCHANGED <<maxIDReached, stack, stackSize, waitListSize, freeOrder,
                   parkOrder>>
    /\ UNCHANGED <<listVars, rbVars>>

\* a Release that does not look at the wait list
ReleasePushAlways(t) ==
    /\ pc[t] = "release"
    /\ stack' = Push(arg[t], stack)
    /\ stackSize' = stackSize + 1
    /\ freeOrder' = Append(freeOrder, arg[t])
    /\ pc' = [pc EXCEPT ![t] = "idle"]
    /\ Released(t, "push")
    /\ UNCHANGED <<maxIDReached, waitList, waitListSize, node, w, parkOrder>>
    /\ UNCHANGED <<listVars, rbVars>>

\* a Release that puts back only an id that is out
ReleasePushValidated(t) ==
    /\ pc[t] = "release"
    /\ waitList = Nil
    /\ stack' = IF held[arg[t]] > 0 THEN Push(arg[t], stack) ELSE stack
    /\ stackSize' = IF held[arg[t]] > 0 THEN stackSize + 1 ELSE stackSize
    /\ freeOrder' = IF held[arg[t]] > 0 THEN Append(freeOrder, arg[t]) ELSE freeOrder
    /\ pc' = [pc EXCEPT ![t] = "idle"]
    /\ Released(t, "push")
    /\ UNCHANGED <<maxIDReached, waitList, waitListSize, node, w, parkOrder>>
    /\ UNCHANGED <<listVars, rbVars>>

\* a Release that unlocks and leaves the id nowhere
ReleasePushDropped(t) ==
    /\ pc[t] = "release"
    /\ waitList = Nil
    /\ pc' = [pc EXCEPT ![t] = "idle"]
    /\ Released(t, "push")
    /\ UNCHANGED <<maxIDReached, stack, stackSize, freeOrder, waitList,
                   waitListSize, node, w, parkOrder>>
    /\ UNCHANGED <<listVars, rbVars>>

\* else: the id goes on the stack
ReleasePush(t) ==
    /\ pc[t] = "release"
    /\ waitList = Nil
    /\ stack' = Push(arg[t], stack)
    /\ stackSize' = stackSize + 1
    /\ freeOrder' = Append(freeOrder, arg[t])
    /\ pc' = [pc EXCEPT ![t] = "idle"]
    /\ Released(t, "push")
    /\ UNCHANGED <<maxIDReached, waitList, waitListSize, node, w, parkOrder>>
    /\ UNCHANGED <<listVars, rbVars>>

Release(t) ==
    \/ \E v \in Values : ReleaseLock(t, v)
    \/ ReleaseHandoff(t)
    \/ ReleasePush(t)

\* ---------------------------------------------------- the program
Next == \E t \in Procs : Reserve(t) \/ Release(t)

Spec == Init /\ [][Next]_allVars

\* ---------------------------------------------------- sanity
TypeOK ==
    /\ mu \in Procs \cup {NoProc}
    /\ maxIDReached \in Values
    /\ stack \in Seq(Values)
    /\ waitList \in NodeIds \cup {Nil}
    /\ \A t \in Procs : w[t] \in NodeIds \cup {Nil}
    /\ \A t \in Procs : pc[t] \in {"idle", "reserve", "waiting", "woken", "resumed",
                                  "releasing", "release"}

\* the heap of the model never runs out of cells when a waiter is created
HeapNeverFull ==
    \A t \in Procs : pc[t] = "reserve" => HeapHasRoom

\* ---------------------------------------------------- vocabulary of the claims
\* goroutine t is inside the wait of Reserve: its waiter exists
Parked(t) == pc[t] \in {"waiting", "woken", "resumed"}
\* a Release has given t's waiter a value and t has not returned yet
Fulfilled(t) == Parked(t) /\ node[w[t]].done
\* t is parked and no Release has served it
Blocked(t) == Parked(t) /\ ~node[w[t]].done
\* the blocked goroutines, the one that parked first first
BlockedOrder == SelectSeq(parkOrder, LAMBDA q : ~node[w[q]].done)
\* goroutine t runs the critical section of Release in this step
ReleaseStep(t) == pc[t] = "release" /\ pc'[t] = "idle"
\* goroutine t returns from Reserve in this step
ReserveReturn(t) == pc[t] \in {"reserve", "resumed"} /\ pc'[t] = "idle"
\* how often v is on the sequence s
Count(s, v) == Cardinality({i \in 1 .. Len(s) : s[i] = v})
\* the goroutine whose waiter is the cell n (0 when it is nobody's)
Owner(ws, n) == IF \E q \in Procs : ws[q] = n
                THEN CHOOSE q \in Procs : ws[q] = n ELSE 0
\* the goroutines of the waiters linked from the head of the wait list
Queue(nd, wl, ws) ==
    LET c == Chain(nd, wl, MaxNodes) IN [i \in 1 .. Len(c) |-> Owner(ws, c[i])]
\* the waiters that have a value waiting for them, with that value
Gifts(nd, ws, p) ==
    {<<q, nd[ws[q]].value>> : q \in {r \in Procs :
        p[r] \in {"waiting", "woken", "resumed"} /\ nd[ws[r]].done}}

\* ---------------------------------------------------- C1
\* C1: no identifier is held by two outstanding reservations at the same time.
Uniqueness == \A v \in Values : held[v] <= 1

\* every identifier is out, the last of them handed from a Release to a waiter
UniquenessWitness ==
    /\ lastOp = "resume"
    /\ \A v \in 1 .. MaxId : held[v] = 1

\* ---------------------------------------------------- C2
\* C2: a Release(V) delivers V to exactly one destination: with a waiter queued, V
\* goes to the head waiter, which leaves the queue fulfilled, and the free stack
\* is unchanged; with none, V goes on top of the free stack and no waiter is
\* touched.
ReleaseDeliversOnce ==
    [][\A t \in Procs : ReleaseStep(t) =>
          LET V == arg[t]
              q == Queue(node, waitList, w)
          IN  IF waitList # Nil
              THEN /\ Blocked(Head(q))
                   /\ Gifts(node', w', pc') = Gifts(node, w, pc) \cup {<<Head(q), V>>}
                   /\ Queue(node', waitList', w') = Tail(q)
                   /\ stack' = stack
              ELSE /\ stack' = <<V>> \o stack
                   /\ Gifts(node', w', pc') = Gifts(node, w, pc)
                   /\ Queue(node', waitList', w') = q
                   /\ \A r \in Procs : Parked(r) => node'[w'[r]].done = node[w[r]].done
      ]_vars

\* a Release has just served a waiter while the free stack is empty
ReleaseDeliversOnceWitness ==
    /\ lastOp = "handoff"
    /\ \E t \in Procs : Fulfilled(t)
    /\ stack = <<>>

\* ---------------------------------------------------- C3
\* C3: a parked Reserve returns only after a Release has assigned a value to its
\* own waiter, and returns that value; woken otherwise it waits again; a
\* Release lets at most one parked Reserve return.
ParkedReturnsOnlyItsGift ==
    [][\A t \in Procs :
          /\ (Parked(t) /\ pc'[t] = "idle") =>
                 /\ Fulfilled(t)
                 /\ held' = Give(node[w[t]].value)
          /\ (pc[t] = "resumed" /\ ~node[w[t]].done) => pc'[t] = "waiting"
          /\ (Blocked(t) /\ Parked(t)' /\ node'[w'[t]].done) =>
                 \E r \in Procs :
                    /\ ReleaseStep(r)
                    /\ node'[w'[t]].value = arg[r]
                    /\ \A u \in Procs \ {t} : Blocked(u) => Blocked(u)'
          /\ (Fulfilled(t) /\ Parked(t)') =>
                 /\ node'[w'[t]].done
                 /\ node'[w'[t]].value = node[w[t]].value
      ]_vars

\* one waiter has its value and is on its way out, another was woken by the same
\* Broadcast and waits again
ParkedReturnsOnlyItsGiftWitness ==
    \E t, u \in Procs :
        /\ Fulfilled(t)
        /\ pc[u] = "waiting" /\ ~node[w[u]].done
        /\ lastOp = "rewait"

OldestWaiterServedFirst ==
    [][\A t \in Procs : (ReleaseStep(t) /\ waitList # Nil) =>
          LET b == BlockedOrder
          IN  /\ b # <<>>
              /\ \A q \in Procs : q = b[1] => Fulfilled(q)'
      ]_vars

\* ---------------------------------------------------- C6
\* C6: the free stack and the waiter queue are never both non-empty, and a
\* non-empty waiter queue means that the high-water mark is at its maximum.
StackAndQueueExclusive ==
    /\ ~(stack # <<>> /\ waitList # Nil)
    /\ waitList # Nil => maxIDReached = MaxSimultaneousRequest

\* a Release has served one waiter and another is still queued
StackAndQueueExclusiveWitness ==
    /\ lastOp = "handoff"
    /\ waitList # Nil
    /\ stack = <<>>

\* ---------------------------------------------------- C7
\* C7: the high-water mark starts at 0, never decreases, never passes the
\* maximum, and advances by one only in a Reserve that finds the free stack
\* empty, which returns the new value; a value minted before is handed out
\* again only when nobody holds it, that is after its Release.
MonotonicMinting ==
    /\ maxIDReached = 0
    /\ [](maxIDReached \in 0 .. MaxSimultaneousRequest)
    /\ [][/\ maxIDReached' >= maxIDReached
          /\ maxIDReached' # maxIDReached =>
                /\ maxIDReached' = maxIDReached + 1
                /\ stack = <<>>
                /\ \E t \in Procs : pc[t] = "reserve" /\ ReserveReturn(t)
                /\ held' = Give(maxIDReached')
          /\ \A v \in Values :
                (held'[v] > held[v] /\ v <= maxIDReached) =>
                    /\ held[v] = 0
                    /\ maxIDReached' = maxIDReached
                    /\ \/ stack # <<>> /\ Head(stack) = v
                       \/ \E t \in Procs : Fulfilled(t) /\ node[w[t]].value = v
       ]_vars

\* every id has been minted, and one of them has come back and gone out again
MonotonicMintingWitness ==
    /\ maxIDReached = MaxSimultaneousRequest
    /\ lastOp = "pop"
    /\ \A v \in 1 .. MaxId : held[v] = 1

\* ---------------------------------------------------- C8
\* C8: as long as nothing is released, the Reserve calls return 1, 2, ... in the
\* order in which they took the lock, each value once, up to the maximum; the
\* call after that blocks and does not return.
FreshPoolMintsInOrder ==
    /\ [](~released =>
            /\ mintLog = [i \in 1 .. maxIDReached |-> i]
            /\ \A v \in Values : held[v] = IF v \in 1 .. maxIDReached THEN 1 ELSE 0
            /\ parkOrder # <<>> => maxIDReached = MaxSimultaneousRequest
            /\ \A t \in Procs : Parked(t) => ~node[w[t]].done)
    /\ [][\A t \in Procs : (~released /\ pc[t] = "reserve") =>
              IF Len(mintLog) < MaxSimultaneousRequest
              THEN /\ ReserveReturn(t)
                   /\ mintLog' = Append(mintLog, Len(mintLog) + 1)
              ELSE /\ pc'[t] = "waiting"
                   /\ mintLog' = mintLog
       ]_vars

\* nothing released, every id handed out in order, and the next Reserve blocked
FreshPoolMintsInOrderWitness ==
    /\ ~released
    /\ mintLog = [i \in 1 .. MaxSimultaneousRequest |-> i]
    /\ \E t \in Procs : pc[t] = "waiting"

\* ---------------------------------------------------- C9
\* C9: with the free stack non-empty, Reserve returns at once the value released
\* last among those on the stack, takes it off the stack and leaves the
\* high-water mark and the waiter queue alone; it mints only when the stack is
\* empty.
ReuseLastReleasedFirst ==
    [][\A t \in Procs :
          /\ (pc[t] = "reserve" /\ stack # <<>>) =>
                 LET v == freeOrder[Len(freeOrder)]
                 IN  /\ ReserveReturn(t)
                     /\ held' = Give(v)
                     /\ Len(stack') = Len(stack) - 1
                     /\ \A x \in Values :
                           Count(stack', x) = Count(stack, x) - (IF x = v THEN 1 ELSE 0)
                     /\ maxIDReached' = maxIDReached
                     /\ Queue(node', waitList', w') = Queue(node, waitList, w)
                     /\ waitList' = waitList
          /\ maxIDReached' # maxIDReached => stack = <<>>
      ]_vars

\* 1 and 2 were reserved, 2 was released and then 1, and Reserve returned 1
ReuseLastReleasedFirstWitness ==
    /\ lastOp = "pop"
    /\ maxIDReached = 2
    /\ stack = <<2>>
    /\ held[1] = 1

\* ---------------------------------------------------- C10
\* C10: Reserve suspends its caller only when, holding the lock, it finds the
\* free stack empty and the high-water mark at its maximum; in any other state
\* it returns an identifier in that critical section.
ReserveBlocksOnlyWhenExhausted ==
    [][\A t \in Procs :
          /\ pc[t] = "reserve" =>
                 IF stack = <<>> /\ maxIDReached = MaxSimultaneousRequest
                 THEN pc'[t] = "waiting" /\ held' = held
                 ELSE /\ ReserveReturn(t)
                      /\ mu' = NoProc
                      /\ \E v \in 1 .. MaxId : held' = Give(v)
          /\ (pc[t] = "idle" /\ pc'[t] # "idle") => pc'[t] \in {"reserve", "release"}
      ]_vars

\* a Reserve has just parked
ReserveBlocksOnlyWhenExhaustedWitness ==
    /\ lastOp = "park"
    /\ \E t \in Procs : pc[t] = "waiting" /\ ~node[w[t]].done
    /\ stack = <<>>
    /\ maxIDReached = MaxSimultaneousRequest

\* ---------------------------------------------------- scheduling
\* The program with the call of Release and its p.mu.Lock() as two steps, and
\* with what the Go scheduler and sync.Mutex give: a goroutine that can run
\* does run, and a goroutine blocked in Lock (sync.Mutex hands the mutex to a
\* starving waiter) or in Wait's relock gets the mutex in the end.  Nothing
\* makes a caller call.

\* the Release calls of v that have not reached the end of Release
InFlight(v) ==
    Cardinality({q \in Procs : pc[q] \in {"releasing", "release"} /\ arg[q] = v})

\* Release(packetIDBytes) is called with an id that is held: CombineTwoBytes,
\* and the caller stands at p.mu.Lock()
ReleaseCall(t, v) ==
    /\ pc[t] = "idle"
    /\ held[v] > InFlight(v)
    /\ arg' = [arg EXCEPT ![t] = CombineTwoBytes(GetBytes(v))]
    /\ pc' = [pc EXCEPT ![t] = "releasing"]
    /\ UNCHANGED <<mu, maxIDReached, stack, stackSize, waitList, waitListSize,
                   node, w, held, freeOrder, parkOrder, released, mintLog, lastOp>>
    /\ UNCHANGED <<listVars, rbVars>>

\* p.mu.Lock() of Release returns
ReleaseAcquire(t) ==
    /\ pc[t] = "releasing"
    /\ mu = NoProc
    /\ mu' = t
    /\ pc' = [pc EXCEPT ![t] = "release"]
    /\ UNCHANGED <<maxIDReached, stack, stackSize, waitList, waitListSize, node,
                   w, arg, held, freeOrder, parkOrder, released, mintLog, lastOp>>
    /\ UNCHANGED <<listVars, rbVars>>

\* what a goroutine does once it holds the mutex
Critical(t) ==
    \/ ReservePop(t)
    \/ ReserveMint(t)
    \/ ReservePark(t)
    \/ ReserveRewait(t)
    \/ ReserveResume(t)
    \/ ReleaseHandoff(t)
    \/ ReleasePush(t)

NextFair ==
    \E t \in Procs :
        \/ ReserveLock(t)
        \/ WaitReacquire(t)
        \/ \E v \in Values : ReleaseCall(t, v)
        \/ ReleaseAcquire(t)
        \/ Critical(t)

\* the goroutine that holds the mutex runs its critical section
RunsCritical == WF_vars(\E t \in Procs : Critical(t))

\* the Lock of a Release, and the relock at the end of a Wait, get the mutex
FairSpec ==
    /\ Init /\ [][NextFair]_allVars
    /\ RunsCritical
    /\ \A t \in Procs : SF_vars(ReleaseAcquire(t))
    /\ \A t \in Procs : SF_vars(WaitReacquire(t))

\* ---------------------------------------------------- C11
\* C11: Release never suspends: a goroutine waiting in Reserve does not hold
\* the mutex, and under fair scheduling every Release that is called reaches
\* its end, however many Reserve calls are parked.
ReleaseCompletes ==
    /\ [](\A t \in Procs : pc[t] \in {"waiting", "woken"} => mu # t)
    /\ \A t \in Procs : (pc[t] = "releasing") ~> (pc[t] = "idle")

\* a Release stands at Lock while another goroutine has the mutex and two
\* Reserve calls are parked
ReleaseCompletesWitness ==
    \E t, u, x \in Procs :
        /\ pc[t] = "releasing"
        /\ u # x
        /\ Parked(u) /\ Parked(x)
        /\ mu = u

\* ---------------------------------------------------- the accessors
\* func (p *PacketIDs) GetStackSize() int64
GetStackSize == stackSize
\* func (p *PacketIDs) GetWaitListSize() int64
GetWaitListSize == waitListSize

\* ---------------------------------------------------- C12
\* C12: every identifier Reserve returns, from the stack, newly minted or handed
\* over by a Release, lies in 1 .. MaxSimultaneousRequest; 0 is never issued.
IssuedIdsInRange ==
    /\ [](held[0] = 0)
    /\ [][\A t \in Procs : ReserveReturn(t) =>
              \E v \in 1 .. MaxSimultaneousRequest : held' = Give(v)]_vars

\* an id has come out of each path: one minted, one popped, one handed over
IssuedIdsInRangeWitness ==
    /\ lastOp = "resume"
    /\ stack = <<>>
    /\ \E t \in Procs : Blocked(t)
    /\ \E v \in 1 .. MaxId : held[v] = 1

\* ---------------------------------------------------- C13
\* C13: when no call is in progress and no identifier is out, the waiting count
\* is 0, the free count is the high-water mark, and the free stack holds each
\* of 1 .. maxIDReached once.
Quiescent == (\A t \in Procs : pc[t] = "idle") /\ (\A v \in Values : held[v] = 0)

QuiescentAccounting ==
    Quiescent =>
        /\ GetWaitListSize = 0
        /\ GetStackSize = maxIDReached
        /\ Len(stack) = maxIDReached
        /\ \A v \in Values : Count(stack, v) = IF v \in 1 .. maxIDReached THEN 1 ELSE 0

\* every id was minted and all of them are back, in an order that is not the
\* order of minting
QuiescentAccountingWitness ==
    /\ Quiescent
    /\ maxIDReached = MaxSimultaneousRequest
    /\ lastOp = "push"
    /\ stack[1] = 1

\* ---------------------------------------------------- C14
\* C14: whenever the mutex is free, GetStackSize is the number of values on the
\* free stack and GetWaitListSize is the number of waiters linked from the head
\* of the wait list, also between a hand-off and the resumption of the waiter.
AccessorsMatchStructures ==
    mu = NoProc =>
        /\ GetStackSize = Len(stack)
        /\ GetWaitListSize = Len(Chain(node, waitList, MaxNodes))

\* ---------------------------------------------------- C16
\* C16: no lost wake-up: a parked Reserve whose waiter a Release has fulfilled
\* with the value v keeps that value until it returns, returns v, and under
\* fair scheduling does return, whatever parks or is released in between.
NoLostWakeup ==
    /\ [][\A t \in Procs : \A v \in Values :
              (Fulfilled(t) /\ node[w[t]].value = v) =>
                  \/ Fulfilled(t)' /\ node'[w'[t]].value = v
                  \/ ReserveReturn(t) /\ held' = Give(v)]_vars
    /\ \A t \in Procs : Fulfilled(t) ~> (pc[t] = "idle")

\* t is fulfilled and not yet back in its critical section; x parked after
\* that and a further Release has served x
NoLostWakeupWitness ==
    \E i, j \in 1 .. Len(parkOrder) :
        /\ i < j
        /\ Fulfilled(parkOrder[i])
        /\ pc[parkOrder[i]] = "woken"
        /\ Fulfilled(parkOrder[j])
        /\ node[w[parkOrder[i]]].value # node[w[parkOrder[j]]].value

\* ---------------------------------------------------- misuse
\* Callers that release whatever they like: any two bytes, held or not.  The
\* free stack of such a run has no bound of its own; the runs looked at stop
\* releasing when it holds MaxStack values.
MaxStack == 2

\* Release(packetIDBytes) with any value: CombineTwoBytes, then p.mu.Lock()
ReleaseAnyLock(t, v) ==
    /\ pc[t] = "idle"
    /\ Len(stack) < MaxStack
    /\ mu = NoProc
    /\ mu' = t
    /\ arg' = [arg EXCEPT ![t] = CombineTwoBytes(GetBytes(v))]
    /\ pc' = [pc EXCEPT ![t] = "release"]
    /\ UNCHANGED <<maxIDReached, stack, stackSize, waitList, waitListSize, node,
                   w, held, freeOrder, parkOrder, released, mintLog, lastOp>>
    /\ UNCHANGED <<listVars, rbVars>>

NextMisuse ==
    \E t \in Procs :
        \/ Reserve(t)
        \/ \E v \in Values : ReleaseAnyLock(t, v)
        \/ ReleaseHandoff(t)
        \/ ReleasePush(t)

MisuseSpec == Init /\ [][NextMisuse]_allVars

\* ---------------------------------------------------- C17
\* C17: Release validates nothing: whatever value it is called with, held or
\* not, released before or not, it runs to its end and puts the value on the
\* stack or gives it to the head waiter; after a double release of v two
\* Reserve calls return v and both hold it.
ReleaseAcceptsAnything ==
    /\ [](\A t \in Procs : pc[t] = "release" =>
              ENABLED (ReleaseHandoff(t) \/ ReleasePush(t)))
    /\ [][\A t \in Procs : ReleaseStep(t) =>
              \/ waitList = Nil /\ stack' = Push(arg[t], stack)
              \/ waitList # Nil /\ \E q \in Procs :
                    Blocked(q) /\ Fulfilled(q)' /\ node'[w'[q]].value = arg[t]
         ]_vars

\* two reservations of one value are out at once, the second one popped
ReleaseAcceptsAnythingWitness ==
    \E v \in 1 .. MaxId : held[v] = 2 /\ lastOp = "pop"

\* ---------------------------------------------------- C18
\* C18: each of 1 .. maxIDReached is in exactly one place: on the free stack,
\* out with a caller, or in the waiter of a fulfilled Reserve that has not
\* returned; no other value is anywhere.
GiftsOf(v) == Cardinality({q \in Procs : Fulfilled(q) /\ node[w[q]].value = v})

Conservation ==
    \A v \in Values :
        Count(stack, v) + held[v] + GiftsOf(v) =
            IF v \in 1 .. maxIDReached THEN 1 ELSE 0

\* one value is out with a caller while another waits in a fulfilled waiter
ConservationWitness ==
    \E u, v \in 1 .. maxIDReached :
        /\ u # v
        /\ held[u] = 1
        /\ GiftsOf(v) = 1
        /\ released

\* ---------------------------------------------------- C19
\* C19: the cells linked from the head of the wait list are the waiters of the
\* blocked Reserve calls, each once, the one that parked last first; and the
\* unlink of a resuming waiter leaves that chain as it is.
WaitQueueIntact ==
    /\ [](LET q == Queue(node, waitList, w)
              b == BlockedOrder
          IN  /\ Len(q) = Len(b)
              /\ \A i \in 1 .. Len(q) : q[i] = b[Len(b) + 1 - i])
    /\ [][\A t \in Procs : (pc[t] = "resumed" /\ pc'[t] = "idle") =>
              Queue(node', waitList', w') = Queue(node, waitList, w)]_vars

\* a fulfilled waiter whose next is a blocked waiter is about to unlink itself
WaitQueueIntactWitness ==
    \E t, x \in Procs :
        /\ Fulfilled(t)
        /\ pc[t] = "resumed"
        /\ Blocked(x)
        /\ node[w[t]].next = w[x]
        /\ waitList = w[x]

\* ---------------------------------------------------- the list manager
\* sorted_list_api_manager.kt.  A row is its timestamp, and its key too; the
\* list is the one with indexZeroIsNewest = false, the default.  The scroll
\* callbacks have no state here.

\* what the server may answer: rows, no row twice
Responses ==
    {r \in UNION {[1 .. n -> Stamps] : n \in 0 .. MaxStamp} :
        \A i, j \in 1 .. Len(r) : i # j => r[i] # r[j]}

\* remove values if they are already in the list
Dedupe(rs, r) == SelectSeq(r, LAMBDA v : \A i \in 1 .. Len(rs) : rs[i] # v)

Reversed(r) == [i \in 1 .. Len(r) |-> r[Len(r) + 1 - i]]

RECURSIVE BinarySearch(_, _, _, _)
\* data.rows.binarySearch { (it.getTimestamp() - x).toInt() } between the
\* indexes low and high, counted from 0: the index found, or -(low + 1)
BinarySearch(rs, x, low, high) ==
    IF low > high THEN -(low + 1)
    ELSE LET mid == (low + high) \div 2
             cmp == rs[mid + 1] - x
         IN  IF cmp < 0 THEN BinarySearch(rs, x, mid + 1, high)
             ELSE IF cmp > 0 THEN BinarySearch(rs, x, low, mid - 1)
             ELSE mid

\* .let { if (it < 0) (it * -1) - 1 else it }
IndexToInsert(rs, x) ==
    LET it == BinarySearch(rs, x, 0, Len(rs) - 1)
    IN  IF it < 0 THEN (it * (-1)) - 1 ELSE it

\* data.rows.addAll(index, new), the index counted from 0
AddAll(rs, index, new) ==
    SubSeq(rs, 1, index) \o new \o SubSeq(rs, index + 1, Len(rs))

RECURSIVE InsertGroups(_, _)
\* while (newRows.isNotEmpty()): insert the rows that go before the next
\* newer row of the list, drop them from newRows, and go on
InsertGroups(rs, newRows) ==
    IF newRows = <<>> THEN [rows |-> rs, newRows |-> <<>>]
    ELSE LET indexToInsert == IndexToInsert(rs, newRows[1])
             Before(v) == indexToInsert >= Len(rs) \/ v < rs[indexToInsert + 1]
             quantityToAdd ==
                 Cardinality({i \in 1 .. Len(newRows) : Before(newRows[i])})
         IN  IF quantityToAdd = 0 THEN [rows |-> rs, newRows |-> newRows]
             ELSE InsertGroups(
                      AddAll(rs, indexToInsert, SubSeq(newRows, 1, quantityToAdd)),
                      SelectSeq(newRows, LAMBDA v : ~Before(v)))

\* the list parameter needs to be in ASC order
handleASCListNewRows(rs, r) ==
    IF rs = <<>> THEN r
    ELSE LET done == InsertGroups(rs, r) IN done.rows \o done.newRows

handleNewRows(rs, r) ==
    IF r = <<>> THEN rs
    ELSE LET new == Dedupe(rs, r)
         IN  IF new = <<>> THEN rs
             ELSE IF Len(new) = 1 \/ new[1] < new[2]
                  THEN handleASCListNewRows(rs, new)
                  ELSE handleASCListNewRows(rs, Reversed(new))

\* the value that the perform function of a kind posts to data.loading
LoadingState(k) ==
    IF k = "all" THEN "ALL" ELSE IF k = "after" THEN "NEWER" ELSE "OLDER"

\* Channel.send on a channel of capacity 1 with DROP_LATEST: the element goes
\* to the coroutine if that is suspended in its for loop, else into the
\* buffer if that is empty, else it is dropped
Send(k) ==
    /\ IF loader[k] = "idle"
       THEN /\ loader' = [loader EXCEPT ![k] = "received"]
            /\ cause' = [cause EXCEPT ![k] = FALSE]
            /\ UNCHANGED channel
       ELSE /\ channel' = [channel EXCEPT ![k] =
                   IF @ = <<>> THEN <<[inFlight |-> loader[k] = "loading"]>> ELSE @]
            /\ UNCHANGED <<loader, cause>>
    /\ UNCHANGED <<loading, rows, vars, rbVars>>

loadAll == Send("all")
loadAfter == Send("after")
loadBefore == Send("before")

\* the perform function up to its server call: data.loading.postValue(...)
PerformStart(k) ==
    /\ loader[k] = "received"
    /\ loader' = [loader EXCEPT ![k] = "loading"]
    /\ loading' = LoadingState(k)
    /\ UNCHANGED <<channel, cause, rows, vars, rbVars>>

\* the response r arrives: handleNewRows, data.loading.postValue(NONE)
PerformEnd(k, r) ==
    /\ loader[k] = "loading"
    /\ rows' = handleNewRows(rows, r)
    /\ loading' = "NONE"
    /\ loader' = [loader EXCEPT ![k] = "looping"]
    /\ UNCHANGED <<channel, cause, vars, rbVars>>

\* for (params in channel): the buffered element if there is one, else the
\* coroutine suspends
Receive(k) ==
    /\ loader[k] = "looping"
    /\ IF channel[k] = <<>>
       THEN /\ loader' = [loader EXCEPT ![k] = "idle"]
            /\ UNCHANGED <<channel, cause>>
       ELSE /\ loader' = [loader EXCEPT ![k] = "received"]
            /\ cause' = [cause EXCEPT ![k] = channel[k][1].inFlight]
            /\ channel' = [channel EXCEPT ![k] = <<>>]
    /\ UNCHANGED <<loading, rows, vars, rbVars>>

performLoadAll == PerformStart("all") \/ \E r \in Responses : PerformEnd("all", r)
performLoadAfter ==
    PerformStart("after") \/ \E r \in Responses : PerformEnd("after", r)
performLoadBefore ==
    PerformStart("before") \/ \E r \in Responses : PerformEnd("before", r)

\* for (newRow in data.newRowsChannel) handleNewRows(mutableListOf(newRow), ...)
NewRow(v) ==
    /\ rows' = handleNewRows(rows, <<v>>)
    /\ UNCHANGED <<channel, loader, cause, loading, vars, rbVars>>

start ==
    \/ performLoadAll \/ performLoadAfter \/ performLoadBefore
    \/ \E k \in Kinds : Receive(k)
    \/ \E v \in Stamps : NewRow(v)

ListNext == loadAll \/ loadAfter \/ loadBefore \/ start

ListSpec == Init /\ [][ListNext]_allVars

\* ---------------------------------------------------- C15
\* C15: calls of loadAll, loadAfter or loadBefore made while a load of that
\* kind is running are ignored: no perform function ever runs for a call that
\* was made while the perform function of its kind was running.
CallsInFlightIgnored ==
    \A k \in Kinds : loader[k] = "loading" => ~cause[k]

\* ---------------------------------------------------- the broadcaster
\* pub_sub_implementation.go.  The callers are the goroutines of Procs; a
\* ListenerNode in the map is a record with its ch, and ok tells a node from
\* the nil of a missing key.  Callers close no channel themselves and hand a
\* channel to RemoveAndCloseListener once: close panics on a closed channel.
Listener(c) == [ch |-> c, closed |-> FALSE, ok |-> TRUE]

\* the args of a call are set, r.Lock() has returned
Locked(t, id, c, at) ==
    /\ bpc[t] = "idle"
    /\ rmu = NoProc
    /\ rmu' = t
    /\ bid' = [bid EXCEPT ![t] = id]
    /\ bch' = [bch EXCEPT ![t] = c]
    /\ bpc' = [bpc EXCEPT ![t] = at]
    /\ UNCHANGED <<listeners, closedCh, bnode, vars, listVars>>

\* the call of t is over: its locals are gone
Returned(t) ==
    /\ bpc' = [bpc EXCEPT ![t] = "idle"]
    /\ bid' = [bid EXCEPT ![t] = 0]
    /\ bch' = [bch EXCEPT ![t] = 0]
    /\ bnode' = [bnode EXCEPT ![t] = NoNode]

\* r.Lock() of AddListener(id, ch)
AddListenerLock(t, id, c) == Locked(t, id, c, "add")

\* if _, ok := r.listeners[id]; ok { return fmt.Errorf(...) }
AddListenerExists(t) ==
    /\ bpc[t] = "add"
    /\ listeners[bid[t]].ok
    /\ Returned(t)
    /\ UNCHANGED <<rmu, listeners, closedCh, vars, listVars>>

\* r.listeners[id] = &ListenerNode{ch: ch, closed: false}; r.Unlock()
AddListenerInsert(t) ==
    /\ bpc[t] = "add"
    /\ ~listeners[bid[t]].ok
    /\ listeners' = [listeners EXCEPT ![bid[t]] = Listener(bch[t])]
    /\ rmu' = NoProc
    /\ Returned(t)
    /\ UNCHANGED <<closedCh, vars, listVars>>

AddListener(t) ==
    \/ \E id \in ListenerIds, c \in Chans : AddListenerLock(t, id, c)
    \/ AddListenerExists(t)
    \/ AddListenerInsert(t)

\* r.Lock() of GetListener(id)
GetListenerLock(t, id) == Locked(t, id, 0, "get")

\* node, ok := r.listeners[id]; r.Unlock(); return node, ok
GetListenerRead(t) ==
    /\ bpc[t] = "get"
    /\ rmu' = NoProc
    /\ Returned(t)
    /\ UNCHANGED <<listeners, closedCh, vars, listVars>>

GetListener(t) ==
    \/ \E id \in ListenerIds : GetListenerLock(t, id)
    \/ GetListenerRead(t)

\* the channels that a RemoveAndCloseListener under way is going to close
Closing == {bch[q] : q \in {r \in Procs : bpc[r] \in {"remove", "close"}}}

\* r.Lock() of RemoveAndCloseListener(id, ch)
RemoveLock(t, id, c) ==
    /\ c \notin closedCh \cup Closing
    /\ Locked(t, id, c, "remove")

\* node, ok := r.listeners[id]; delete(r.listeners, id); r.Unlock()
RemoveDelete(t) ==
    /\ bpc[t] = "remove"
    /\ bnode' = [bnode EXCEPT ![t] = listeners[bid[t]]]
    /\ listeners' = [listeners EXCEPT ![bid[t]] = NoNode]
    /\ rmu' = NoProc
    /\ bpc' = [bpc EXCEPT ![t] = "close"]
    /\ UNCHANGED <<closedCh, bid, bch, vars, listVars>>

\* if !ok { close(ch) } else { node.Lock(); node.closed = true; close(ch);
\* node.Unlock() }: the node is in the map no more, only t has it
RemoveClose(t) ==
    /\ bpc[t] = "close"
    /\ closedCh' = closedCh \cup {bch[t]}
    /\ Returned(t)
    /\ UNCHANGED <<rmu, listeners, vars, listVars>>

RemoveAndCloseListener(t) ==
    \/ \E id \in ListenerIds, c \in Chans : RemoveLock(t, id, c)
    \/ RemoveDelete(t)
    \/ RemoveClose(t)

BroadcasterNext ==
    \E t \in Procs : AddListener(t) \/ GetListener(t) \/ RemoveAndCloseListener(t)

BroadcasterSpec == Init /\ [][BroadcasterNext]_allVars

\* ---------------------------------------------------- C20
\* C20: every AddListener, GetListener and RemoveAndCloseListener call has
\* released the broadcaster's mutex when it returns, also an AddListener that
\* fails because the id has a listener: no goroutine outside a call holds it.
MutexFreeAfterReturn ==
    \A t \in Procs : bpc[t] \in {"idle", "close"} => rmu # t

====
